---- MODULE Spec2Model ----
(***************************************************************************)
(* Field-level authorization of sqlalchemy_authorize: the decision engine  *)
(* BasePermissionsMixin.authorize, the field classifier, the override maps *)
(* (allow / deny) and the scoped context managers (protected, exposed,     *)
(* allowed, denied) of one record instance; the Oso variant of the policy   *)
(* hook (OsoPermissionsMixin) with its actor.                              *)
(***************************************************************************)
EXTENDS Integers, Sequences, FiniteSets, TLC

VARIABLES
    _protected,         \* self._protected: authorization enabled
    _allowed_fields,    \* self._allowed_fields: action -> fields
    _forbidden_fields,  \* self._forbidden_fields: action -> fields
    inst_dict,          \* the instance's own attributes (name -> value)
    permissions,        \* __permissions__: role -> action -> field list
    scopes,             \* the open context managers, innermost last
    exc,                \* an exception is propagating out of a with-body
    last,               \* the most recent call and its outcome
    user,               \* get_user(): the actor handed to the policy engine
    oso,                \* get_oso(): the (action, field) pairs its policy grants
    heap,               \* the field lists the rule shorthands are built from
    compiled,           \* the latest load_permissions call: input and table
    thread              \* the authorize call in flight inside the policy hook

vars == <<_protected, _allowed_fields, _forbidden_fields, inst_dict,
          permissions, scopes, exc, last, user, oso, heap, compiled,
          thread>>

\* What a call on the record leaves alone: the actor, the policy engine, the
\* rule shorthands and the tables compiled from them.
others == <<user, oso, heap, compiled, thread>>

\* The record, as the rule compiler leaves it alone.
instance == <<_protected, _allowed_fields, _forbidden_fields, inst_dict,
              permissions, scopes, exc, last>>

\* Nesting depth of with-statements explored.
MaxDepth == 2

----------------------------------------------------------------------------
(* Names, actions, values *)

Range(s) == {s[i] : i \in 1..Len(s)}

\* CRUD (constants.py) and one custom verb.
DEFAULT_ACTIONS == <<"create", "read", "update", "delete">>

Actions == Range(DEFAULT_ACTIONS) \cup {"custom_action"}

\* The attribute names the model passes to the engine: a mapped column, a
\* name that is no attribute of the class, a bookkeeping name, a dunder.
Names == {"id", "nick", "_protected", "__dict__"}

\* The characters of a name (strings are atoms in TLA+).
Chars(name) ==
    CASE name = "id" ->
            <<"i", "d">>
      [] name = "nick" ->
            <<"n", "i", "c", "k">>
      [] name = "_protected" ->
            <<"_", "p", "r", "o", "t", "e", "c", "t", "e", "d">>
      [] name = "__dict__" ->
            <<"_", "_", "d", "i", "c", "t", "_", "_">>
      [] name = "requires_authorization" ->
            <<"r", "e", "q", "u", "i", "r", "e", "s", "_", "a", "u", "t",
            "h", "o", "r", "i", "z", "a", "t", "i", "o", "n">>
      [] name = "exempted_fields" ->
            <<"e", "x", "e", "m", "p", "t", "e", "d", "_", "f", "i", "e",
            "l", "d", "s">>
      [] name = "get_oso" ->
            <<"g", "e", "t", "_", "o", "s", "o">>
      [] name = "get_user" ->
            <<"g", "e", "t", "_", "u", "s", "e", "r">>
      [] name = "get_anonymous_user" ->
            <<"g", "e", "t", "_", "a", "n", "o", "n", "y", "m", "o", "u",
            "s", "_", "u", "s", "e", "r">>
      [] name = "__module__" ->
            <<"_", "_", "m", "o", "d", "u", "l", "e", "_", "_">>
      [] name = "__doc__" ->
            <<"_", "_", "d", "o", "c", "_", "_">>
      [] name = "__permissions__" ->
            <<"_", "_", "p", "e", "r", "m", "i", "s", "s", "i", "o", "n",
            "s", "_", "_">>
      [] name = "DEFAULT_ACTIONS" ->
            <<"D", "E", "F", "A", "U", "L", "T", "_", "A", "C", "T", "I",
            "O", "N", "S">>
      [] name = "PUBLIC_ROLE" ->
            <<"P", "U", "B", "L", "I", "C", "_", "R", "O", "L", "E">>
      [] name = "__init__" ->
            <<"_", "_", "i", "n", "i", "t", "_", "_">>
      [] name = "load_permissions" ->
            <<"l", "o", "a", "d", "_", "p", "e", "r", "m", "i", "s", "s",
            "i", "o", "n", "s">>
      [] name = "permissions" ->
            <<"p", "e", "r", "m", "i", "s", "s", "i", "o", "n", "s">>
      [] name = "roles" ->
            <<"r", "o", "l", "e", "s">>
      [] name = "actions" ->
            <<"a", "c", "t", "i", "o", "n", "s">>
      [] name = "always_allowed_fields" ->
            <<"a", "l", "w", "a", "y", "s", "_", "a", "l", "l", "o", "w",
            "e", "d", "_", "f", "i", "e", "l", "d", "s">>
      [] name = "authorizable_fields" ->
            <<"a", "u", "t", "h", "o", "r", "i", "z", "a", "b", "l", "e",
            "_", "f", "i", "e", "l", "d", "s">>
      [] name = "authorized_fields_for" ->
            <<"a", "u", "t", "h", "o", "r", "i", "z", "e", "d", "_", "f",
            "i", "e", "l", "d", "s", "_", "f", "o", "r">>
      [] name = "authorized_fields" ->
            <<"a", "u", "t", "h", "o", "r", "i", "z", "e", "d", "_", "f",
            "i", "e", "l", "d", "s">>
      [] name = "protect" ->
            <<"p", "r", "o", "t", "e", "c", "t">>
      [] name = "expose" ->
            <<"e", "x", "p", "o", "s", "e">>
      [] name = "protected" ->
            <<"p", "r", "o", "t", "e", "c", "t", "e", "d">>
      [] name = "exposed" ->
            <<"e", "x", "p", "o", "s", "e", "d">>
      [] name = "allow" ->
            <<"a", "l", "l", "o", "w">>
      [] name = "deny" ->
            <<"d", "e", "n", "y">>
      [] name = "allowed" ->
            <<"a", "l", "l", "o", "w", "e", "d">>
      [] name = "denied" ->
            <<"d", "e", "n", "i", "e", "d">>
      [] name = "error" ->
            <<"e", "r", "r", "o", "r">>
      [] name = "authorize_field" ->
            <<"a", "u", "t", "h", "o", "r", "i", "z", "e", "_", "f", "i",
            "e", "l", "d">>
      [] name = "authorize" ->
            <<"a", "u", "t", "h", "o", "r", "i", "z", "e">>
      [] name = "__setattr__" ->
            <<"_", "_", "s", "e", "t", "a", "t", "t", "r", "_", "_">>
      [] name = "__getattr__" ->
            <<"_", "_", "g", "e", "t", "a", "t", "t", "r", "_", "_">>
      [] name = "__getattribute__" ->
            <<"_", "_", "g", "e", "t", "a", "t", "t", "r", "i", "b", "u",
            "t", "e", "_", "_">>
      [] name = "__delattr__" ->
            <<"_", "_", "d", "e", "l", "a", "t", "t", "r", "_", "_">>
      [] name = "__weakref__" ->
            <<"_", "_", "w", "e", "a", "k", "r", "e", "f", "_", "_">>
      [] name = "_allowed_fields" ->
            <<"_", "a", "l", "l", "o", "w", "e", "d", "_", "f", "i", "e",
            "l", "d", "s">>
      [] name = "_forbidden_fields" ->
            <<"_", "f", "o", "r", "b", "i", "d", "d", "e", "n", "_", "f",
            "i", "e", "l", "d", "s">>
      [] name = "metadata" ->
            <<"m", "e", "t", "a", "d", "a", "t", "a">>
      [] name = "registry" ->
            <<"r", "e", "g", "i", "s", "t", "r", "y">>
      [] name = "query" ->
            <<"q", "u", "e", "r", "y">>
      [] name = "query_class" ->
            <<"q", "u", "e", "r", "y", "_", "c", "l", "a", "s", "s">>
      [] name = "__a__" ->
            <<"_", "_", "a", "_", "_">>
      [] name = "__ab__" ->
            <<"_", "_", "a", "b", "_", "_">>
      [] name = "____" ->
            <<"_", "_", "_", "_">>
      [] name = "______" ->
            <<"_", "_", "_", "_", "_", "_">>

\* len(name) > 5 and (name[:2] == name[-2:] == "__"), on the characters
wrapped(c) ==
    /\ Len(c) > 5
    /\ SubSeq(c, 1, 2) = SubSeq(c, Len(c) - 1, Len(c))
    /\ SubSeq(c, Len(c) - 1, Len(c)) = <<"_", "_">>

\* utils.is_dunder
is_dunder(name) == wrapped(Chars(name))

\* list(BasePermissionsMixin.__dict__.keys())
MixinDictKeys ==
    {"__module__", "__doc__", "__permissions__", "DEFAULT_ACTIONS",
     "PUBLIC_ROLE", "__init__", "load_permissions", "permissions",
     "exempted_fields", "roles", "actions", "always_allowed_fields",
     "authorizable_fields", "authorized_fields_for", "authorized_fields",
     "requires_authorization", "protect", "expose", "protected", "exposed",
     "allow", "deny", "allowed", "denied", "error", "authorize_field",
     "authorize", "__setattr__", "__getattr__", "__getattribute__",
     "__delattr__", "__dict__", "__weakref__"}

\* BasePermissionsMixin.exempted_fields ("registry" "query" is one literal)
exempted_fields ==
    MixinDictKeys \cup
    {"_protected", "_allowed_fields", "_forbidden_fields",
     "_sa_instance_state", "_sa_class_manager", "_sa_registry",
     "_decl_class_registry", "permissions", "metadata", "registryquery",
     "query_class"}

\* The attributes every instance has through its class: the mapped column
\* and what the mixin defines.
ClassAttrs == {"id"} \cup MixinDictKeys

----------------------------------------------------------------------------
(* The record instance as the engine sees it *)

Self ==
    [_protected |-> _protected,
     _allowed_fields |-> _allowed_fields,
     _forbidden_fields |-> _forbidden_fields,
     inst_dict |-> inst_dict,
     permissions |-> permissions]

\* dir(self)
dir(self) == ClassAttrs \cup DOMAIN self.inst_dict

\* BasePermissionsMixin.requires_authorization
requires_authorization(self, key) ==
    /\ ~is_dunder(key)
    /\ key # "exempted_fields"
    /\ key \notin exempted_fields
    /\ self._protected

\* BasePermissionsMixin.authorizable_fields (every name of dir(self) outside
\* Names is one of exempted_fields)
authorizable_fields(self) ==
    {key \in dir(self) \cap Names : requires_authorization(self, key)}

\* BasePermissionsMixin.authorized_fields_for:
\* self.permissions.get(role, {}).get(action, [])
authorized_fields_for(self, role, action) ==
    IF role \in DOMAIN self.permissions
    THEN IF action \in DOMAIN self.permissions[role]
         THEN self.permissions[role][action]
         ELSE <<>>
    ELSE <<>>

\* Mutant of error: a read denial is reported as Forbidden too.
error_always_forbidden(action) == [kind |-> "Forbidden", action |-> action]

\* error(action): NotFound for a read, Forbidden for anything else; the
\* error names the action it was made for.
error(action) ==
    [kind |-> IF action = "read" THEN "NotFound" ELSE "Forbidden",
     action |-> action]

Ok == [kind |-> "ok", action |-> "none"]

\* The outcome of a call: what it returned or raised, the actions the policy
\* hook authorize_field was consulted for, and self._protected afterwards.
Outcome(result, hook, protected) ==
    [result |-> result, hook |-> hook, protected |-> protected]

\* Mutant of authorize_field: the lookup grants every request.
authorize_field_grant_all(self, action, key) == Ok

\* BasePermissionsMixin.authorize_field: only the public role's fields.
authorize_field(self, action, key) ==
    IF key \in Range(authorized_fields_for(self, "public", action))
    THEN Ok
    ELSE error(action)

\* BasePermissionsMixin.protect
protect(self) == [self EXCEPT !._protected = TRUE]

\* BasePermissionsMixin.expose
expose(self) == [self EXCEPT !._protected = FALSE]

\* BasePermissionsMixin.protected, up to the yield
protected_enter(self) ==
    [self |-> protect(self), was_protected |-> self._protected]

\* Mutant of protected_exit: the default is restored, not the saved flag.
protected_exit_default(self, was_protected, raising) ==
    [self EXCEPT !._protected = TRUE]

\* BasePermissionsMixin.protected, the finally clause: it runs when the body
\* returned and when it raised
protected_exit(self, was_protected, raising) ==
    [self EXCEPT !._protected = was_protected]

\* BasePermissionsMixin.exposed, up to the yield
exposed_enter(self) ==
    [self |-> expose(self), was_protected |-> self._protected]

\* Mutant of exposed_exit: no finally, the flag is not restored when the
\* body raised.
exposed_exit_no_finally(self, was_protected, raising) ==
    IF raising THEN self ELSE [self EXCEPT !._protected = was_protected]

\* BasePermissionsMixin.exposed, the finally clause
exposed_exit(self, was_protected, raising) ==
    [self EXCEPT !._protected = was_protected]

\* Mutant of exposed_authorize_field: an error of the lookup is swallowed.
exposed_authorize_field_fail_open(self, action, key) ==
    Outcome(Ok, <<action>>, self._protected)

\* with self.exposed(): self.authorize_field(action, key)
exposed_authorize_field(self, action, key) ==
    LET e == exposed_enter(self)
        r == authorize_field(e.self, action, key)
        after == exposed_exit(e.self, e.was_protected, r.kind # "ok")
    IN  Outcome(r, <<action>>, after._protected)

RECURSIVE authorize(_, _, _)

\* Mutant of authorize: the allow override is looked up before the deny
\* override.
authorize_allow_first(self, action, key) ==
    IF key = "requires_authorization" \/ ~requires_authorization(self, key)
    THEN Outcome(Ok, <<>>, self._protected)
    ELSE IF key \in self._allowed_fields[action]
    THEN Outcome(Ok, <<>>, self._protected)
    ELSE IF key \in self._forbidden_fields[action]
    THEN IF action = "read"
         THEN Outcome(error("read"), <<>>, self._protected)
         ELSE LET r == authorize(self, "read", key) IN
              IF r.result.kind # "ok"
              THEN r
              ELSE Outcome(error(action), r.hook, r.protected)
    ELSE IF key \in authorizable_fields(self)
    THEN exposed_authorize_field(self, action, key)
    ELSE Outcome(Ok, <<>>, self._protected)

\* Mutant of authorize: a denied action raises its own error without the
\* read re-check.
authorize_no_recheck(self, action, key) ==
    IF key = "requires_authorization" \/ ~requires_authorization(self, key)
    THEN Outcome(Ok, <<>>, self._protected)
    ELSE IF key \in self._forbidden_fields[action]
    THEN Outcome(error(action), <<>>, self._protected)
    ELSE IF /\ key \in authorizable_fields(self)
            /\ key \notin self._allowed_fields[action]
    THEN exposed_authorize_field(self, action, key)
    ELSE Outcome(Ok, <<>>, self._protected)

\* Mutant of authorize: the deny override is looked up before the field
\* classifier.
authorize_deny_first(self, action, key) ==
    IF key \in self._forbidden_fields[action]
    THEN IF action = "read"
         THEN Outcome(error("read"), <<>>, self._protected)
         ELSE LET r == authorize(self, "read", key) IN
              IF r.result.kind # "ok"
              THEN r
              ELSE Outcome(error(action), r.hook, r.protected)
    ELSE IF key = "requires_authorization"
            \/ ~requires_authorization(self, key)
    THEN Outcome(Ok, <<>>, self._protected)
    ELSE IF /\ key \in authorizable_fields(self)
            /\ key \notin self._allowed_fields[action]
    THEN exposed_authorize_field(self, action, key)
    ELSE Outcome(Ok, <<>>, self._protected)

\* BasePermissionsMixin.authorize
authorize(self, action, key) ==
    IF key = "requires_authorization" \/ ~requires_authorization(self, key)
    THEN Outcome(Ok, <<>>, self._protected)
    ELSE IF key \in self._forbidden_fields[action]
    THEN IF action = "read"
         THEN Outcome(error("read"), <<>>, self._protected)
         ELSE LET r == authorize(self, "read", key) IN
              IF r.result.kind # "ok"
              THEN r
              ELSE Outcome(error(action), r.hook, r.protected)
    ELSE IF /\ key \in authorizable_fields(self)
            /\ key \notin self._allowed_fields[action]
    THEN exposed_authorize_field(self, action, key)
    ELSE Outcome(Ok, <<>>, self._protected)

----------------------------------------------------------------------------
(* Arguments of allow / deny: a str, a list, or None *)

Str(x) == [type |-> "str", v |-> <<x>>]

List(xs) == [type |-> "list", v |-> xs]

None == [type |-> "None", v |-> <<>>]

\* allow / deny: "if type(action) is not list: action = [action]"; the
\* list is what allow / deny return
action_list(action) == action.v

\* allow / deny: None is every authorizable field, a str is wrapped
field_list(self, field) ==
    IF field.type = "None"
    THEN authorizable_fields(self)
    ELSE Range(field.v)

\* "for a in action: self._allowed_fields[a] = field"
assign_fields(map, actions, fields) ==
    [a \in DOMAIN map |-> IF a \in Range(actions) THEN fields ELSE map[a]]

\* Mutant of allow: the fields are recorded under every action.
allow_every_action(self, action, field) ==
    [self EXCEPT !._allowed_fields =
        [a \in DOMAIN @ |-> field_list(self, field)]]

\* BasePermissionsMixin.allow: the instance afterwards
allow(self, action, field) ==
    [self EXCEPT !._allowed_fields =
        assign_fields(@, action_list(action), field_list(self, field))]

\* BasePermissionsMixin.deny: the instance afterwards
deny(self, action, field) ==
    [self EXCEPT !._forbidden_fields =
        assign_fields(@, action_list(action), field_list(self, field))]

\* BasePermissionsMixin.allowed, up to the yield
allowed_enter(self, action, field) ==
    [self |-> allow(self, action, field), actions |-> action_list(action)]

\* Mutant of allowed_exit: the override is left in place.
allowed_exit_keep(self, actions, raising) == self

\* BasePermissionsMixin.allowed, the finally clause
allowed_exit(self, actions, raising) ==
    [self EXCEPT !._allowed_fields = assign_fields(@, actions, {})]

\* BasePermissionsMixin.denied, up to the yield
denied_enter(self, action, field) ==
    [self |-> deny(self, action, field), actions |-> action_list(action)]

\* Mutant of denied_exit: no finally, the reset is skipped when the body
\* raised.
denied_exit_no_finally(self, actions, raising) ==
    IF raising
    THEN self
    ELSE [self EXCEPT !._forbidden_fields = assign_fields(@, actions, {})]

\* BasePermissionsMixin.denied, the finally clause
denied_exit(self, actions, raising) ==
    [self EXCEPT !._forbidden_fields = assign_fields(@, actions, {})]

----------------------------------------------------------------------------
(* Batch enumeration *)

\* dir(self) is sorted: the names of Names in the order of Python's sort
DirOrder == <<"__dict__", "_protected", "id", "nick">>

\* self.authorizable_fields as the list the comprehension builds
authorizable_field_list(self) ==
    SelectSeq(DirOrder, LAMBDA key : key \in authorizable_fields(self))

UnboundLocalError == [kind |-> "UnboundLocalError", action |-> "none"]

RECURSIVE authorized_fields_from(_, _, _, _, _, _)

\* "for field in self.authorizable_fields:", from the i-th field on: fields
\* is the list built so far, field the loop variable (None while unbound);
\* the bare except skips the append
authorized_fields_from(self, action, todo, i, fields, field) ==
    IF i > Len(todo)
    THEN [self |-> self, fields |-> fields, field |-> field]
    ELSE LET r == authorize(self, action, todo[i])
             after == [self EXCEPT !._protected = r.protected]
         IN  authorized_fields_from(after, action, todo, i + 1,
                                    IF r.result.kind = "ok"
                                    THEN Append(fields, todo[i])
                                    ELSE fields,
                                    Str(todo[i]))

\* BasePermissionsMixin.authorized_fields: "return field", the loop variable
\* (unbound when the loop had nothing to iterate over)
authorized_fields(self, action) ==
    LET end == authorized_fields_from(self, action,
                                      authorizable_field_list(self), 1,
                                      <<>>, None)
    IN  IF end.field = None
        THEN [self |-> end.self, result |-> UnboundLocalError,
              returned |-> None]
        ELSE [self |-> end.self, result |-> Ok, returned |-> end.field]

----------------------------------------------------------------------------
(* Field access through the interception hooks *)

NoValue == "none"

\* The record of a call: its arguments, what it returned or raised, the
\* actions the policy hook was consulted for, the value a read returned, the
\* action list allow / deny returned.
Call(op, action, key, result, hook, value) ==
    [op |-> op, action |-> action, key |-> key, result |-> result,
     hook |-> hook, value |-> value, returned |-> <<>>, wrote |-> {}]

AttributeError == [kind |-> "AttributeError", action |-> "none"]

\* object.__setattr__
store(self, key, value) ==
    [self EXCEPT !.inst_dict =
        [k \in DOMAIN @ \cup {key} |-> IF k = key THEN value ELSE @[k]]]

\* object.__delattr__
remove(self, key) ==
    [self EXCEPT !.inst_dict = [k \in DOMAIN @ \ {key} |-> @[k]]]

\* Mutant of setattr: the value is stored before authorize is asked.
setattr_store_first(self, key, value) ==
    LET r == authorize(self, "update", key)
        after == [self EXCEPT !._protected = r.protected]
    IN  [self |-> store(after, key, value),
         call |-> Call("set", "update", key, r.result, r.hook, NoValue)]

\* BasePermissionsMixin.__setattr__: the instance and the call's record
setattr(self, key, value) ==
    LET r == authorize(self, "update", key)
        after == [self EXCEPT !._protected = r.protected]
    IN  IF r.result.kind # "ok"
        THEN [self |-> after,
              call |-> Call("set", "update", key, r.result, r.hook, NoValue)]
        ELSE [self |-> store(after, key, value),
              call |-> Call("set", "update", key, Ok, r.hook, NoValue)]

\* BasePermissionsMixin.__getattribute__ (and __getattr__ for a name that
\* object.__getattribute__ does not find)
getattribute(self, item) ==
    LET r == authorize(self, "read", item)
        after == [self EXCEPT !._protected = r.protected]
    IN  IF r.result.kind # "ok"
        THEN [self |-> after,
              call |-> Call("get", "read", item, r.result, r.hook, NoValue)]
        ELSE IF item \in DOMAIN self.inst_dict
        THEN [self |-> after,
              call |-> Call("get", "read", item, Ok, r.hook,
                            self.inst_dict[item])]
        ELSE IF item \in ClassAttrs
        THEN [self |-> after,
              call |-> Call("get", "read", item, Ok, r.hook, "None")]
        ELSE [self |-> after,
              call |-> Call("get", "read", item, AttributeError, r.hook,
                            NoValue)]

\* BasePermissionsMixin.__delattr__
delattr(self, item) ==
    LET r == authorize(self, "delete", item)
        after == [self EXCEPT !._protected = r.protected]
    IN  IF r.result.kind # "ok"
        THEN [self |-> after,
              call |-> Call("del", "delete", item, r.result, r.hook, NoValue)]
        ELSE IF item \in DOMAIN self.inst_dict
        THEN [self |-> remove(after, item),
              call |-> Call("del", "delete", item, Ok, r.hook, NoValue)]
        ELSE [self |-> after,
              call |-> Call("del", "delete", item, AttributeError, r.hook,
                            NoValue)]

----------------------------------------------------------------------------
(* The permission tables of the record type *)

\* load_permissions' docstring example, compiled
DocTable ==
    [admin |-> [a \in Actions |-> <<"*">>],
     friend |-> [read |-> <<"fullname", "id", "username">>],
     public |-> [read |-> <<"id", "username">>],
     self |-> [create |-> <<"username", "fullname">>,
               custom_action |-> <<"*">>,
               delete |-> <<"*">>,
               read |-> <<"*">>,
               update |-> <<"username", "fullname">>]]

\* load_permissions(public=[(["create", "update", "delete"], ["id"]),
\* "custom_action"]): the public role may write id, not read it, and may
\* perform custom_action on every field
WriteTable ==
    [public |-> [create |-> <<"id">>, update |-> <<"id">>,
                 delete |-> <<"id">>, custom_action |-> <<"*">>]]

Tables == {DocTable, WriteTable}

----------------------------------------------------------------------------
(* The state machine of one instance *)

NoCall == Call("init", "none", "none", Ok, <<>>, NoValue)

EmptyFields == [a \in Actions |-> {}]

\* get_anonymous_user(): UserMock(id="anon"), which has no flag of its own
UserMock == [kind |-> "UserMock", _protected |-> FALSE]

\* No authorize call is inside the policy hook.
Idle ==
    [pc |-> "idle", action |-> "none", key |-> "none",
     was_protected |-> FALSE, user_was_protected |-> FALSE]

\* BasePermissionsMixin.__init__(id=..., protected=...): the instance
InitInstance ==
    /\ thread = Idle
    /\ _protected \in BOOLEAN
    /\ _allowed_fields = EmptyFields
    /\ _forbidden_fields = EmptyFields
    /\ inst_dict = [k \in {"id"} |-> "v0"]
    /\ scopes = <<>>
    /\ exc = FALSE
    /\ last = NoCall

\* The field lists written in the class definitions: ["id", "username"],
\* ["username", "fullname"], ["fullname"] (the docstring example of
\* load_permissions) and ["ssn"].
Lists ==
    <<<<"id", "username">>, <<"username", "fullname">>, <<"fullname">>,
      <<"ssn">>>>

\* No load_permissions call yet.
NotCompiled ==
    [done |-> FALSE, kwargs |-> <<>>, table |-> <<>>, value |-> <<>>]

InitCompiler ==
    /\ heap = Lists
    /\ compiled = NotCompiled

\* An instance of a record type with one of the tables; no user is set and
\* the policy engine has no rule.
Init ==
    /\ InitInstance
    /\ permissions \in Tables
    /\ user = UserMock
    /\ oso = {}
    /\ InitCompiler

\* The instance's attributes become those of self; no other object changes.
Apply(self) ==
    /\ _protected' = self._protected
    /\ _allowed_fields' = self._allowed_fields
    /\ _forbidden_fields' = self._forbidden_fields
    /\ inst_dict' = self.inst_dict
    /\ permissions' = self.permissions
    /\ UNCHANGED others

\* an error raised inside a with-body propagates through the open scopes
Raised(result) == result.kind # "ok" /\ scopes # <<>>

\* What the properties remember of an open with-statement while its body
\* has only stored existing attributes: the outcome a write of each field had
\* on entry (pre), had with allowed["update"] empty (pre0), the fields in
\* allowed["update"] on entry (had), and the fields the body stored (wrote).
WriteOutcome(self, key) == authorize(self, "update", key).result.kind

NoGhost ==
    [clean |-> FALSE, pre |-> <<>>, pre0 |-> <<>>, had |-> {}, wrote |-> {}]

EntryGhost ==
    [clean |-> TRUE,
     pre |-> [k \in {"id", "nick"} |-> WriteOutcome(Self, k)],
     pre0 |-> [k \in {"id", "nick"} |->
                 WriteOutcome([Self EXCEPT !._allowed_fields["update"] = {}],
                              k)],
     had |-> _allowed_fields["update"],
     wrote |-> {}]

\* An open with-statement: the context manager's kind and its local
\* variables (was_protected, actions); and, for the properties, the flag as
\* it was on entry, the fields the scope named, and the ghost above.
Frame(kind, was_protected, actions, fields) ==
    [kind |-> kind, was_protected |-> was_protected, actions |-> actions,
     entry_protected |-> _protected, fields |-> fields, ghost |-> EntryGhost]

Top == scopes[Len(scopes)]

\* The body of every open with-statement did more than store attributes.
Dirty(ss) == [i \in DOMAIN ss |-> [ss[i] EXCEPT !.ghost = NoGhost]]

Protect ==
    /\ ~exc
    /\ Apply(protect(Self))
    /\ last' = Call("protect", "none", "none", Ok, <<>>, NoValue)
    /\ scopes' = Dirty(scopes)
    /\ UNCHANGED exc

Expose ==
    /\ ~exc
    /\ Apply(expose(Self))
    /\ last' = Call("expose", "none", "none", Ok, <<>>, NoValue)
    /\ scopes' = Dirty(scopes)
    /\ UNCHANGED exc

Allow(action, field) ==
    /\ ~exc
    /\ Apply(allow(Self, action, field))
    /\ last' = [Call("allow", "none", "none", Ok, <<>>, NoValue)
                  EXCEPT !.returned = action_list(action)]
    /\ scopes' = Dirty(scopes)
    /\ UNCHANGED exc

Deny(action, field) ==
    /\ ~exc
    /\ Apply(deny(Self, action, field))
    /\ last' = [Call("deny", "none", "none", Ok, <<>>, NoValue)
                  EXCEPT !.returned = action_list(action)]
    /\ scopes' = Dirty(scopes)
    /\ UNCHANGED exc

AuthorizeCall(action, key) ==
    LET r == authorize(Self, action, key) IN
    /\ ~exc
    /\ Apply([Self EXCEPT !._protected = r.protected])
    /\ last' = Call("authorize", action, key, r.result, r.hook, NoValue)
    /\ exc' = Raised(r.result)
    /\ UNCHANGED scopes

AuthorizedFieldsCall(action) ==
    LET r == authorized_fields(Self, action) IN
    /\ ~exc
    /\ Apply(r.self)
    /\ last' = Call("authorized_fields", action, "none", r.result, <<>>,
                    NoValue) @@ [ret |-> r.returned]
    /\ exc' = Raised(r.result)
    /\ UNCHANGED scopes

SetAttr(key, value) ==
    LET r == setattr(Self, key, value) IN
    /\ ~exc
    /\ Apply(r.self)
    /\ last' = r.call
    /\ exc' = Raised(r.call.result)
    /\ scopes' = IF scopes = <<>> \/ r.call.result.kind # "ok"
                 THEN scopes
                 ELSE IF key \in dir(Self) /\ Top.ghost.clean
                 THEN [scopes EXCEPT ![Len(scopes)].ghost.wrote =
                                         @ \cup {key}]
                 ELSE Dirty(scopes)

GetAttr(item) ==
    LET r == getattribute(Self, item) IN
    /\ ~exc
    /\ Apply(r.self)
    /\ last' = r.call
    /\ exc' = Raised(r.call.result)
    /\ UNCHANGED scopes

DelAttr(item) ==
    LET r == delattr(Self, item) IN
    /\ ~exc
    /\ Apply(r.self)
    /\ last' = r.call
    /\ exc' = Raised(r.call.result)
    /\ scopes' = Dirty(scopes)

\* with self.protected():
EnterProtected ==
    LET e == protected_enter(Self) IN
    /\ ~exc
    /\ Len(scopes) < MaxDepth
    /\ Apply(e.self)
    /\ scopes' = Append(Dirty(scopes),
                        Frame("protected", e.was_protected, <<>>, {}))
    /\ last' = Call("protected", "none", "none", Ok, <<>>, NoValue)
    /\ UNCHANGED exc

\* with self.exposed():
EnterExposed ==
    LET e == exposed_enter(Self) IN
    /\ ~exc
    /\ Len(scopes) < MaxDepth
    /\ Apply(e.self)
    /\ scopes' = Append(Dirty(scopes),
                        Frame("exposed", e.was_protected, <<>>, {}))
    /\ last' = Call("exposed", "none", "none", Ok, <<>>, NoValue)
    /\ UNCHANGED exc

\* with self.allowed(action, field):
EnterAllowed(action, field) ==
    LET e == allowed_enter(Self, action, field) IN
    /\ ~exc
    /\ Len(scopes) < MaxDepth
    /\ Apply(e.self)
    /\ scopes' = Append(Dirty(scopes),
                        Frame("allowed", _protected, e.actions,
                              field_list(Self, field)))
    /\ last' = Call("allowed", "none", "none", Ok, <<>>, NoValue)
    /\ UNCHANGED exc

\* with self.denied(action, field):
EnterDenied(action, field) ==
    LET e == denied_enter(Self, action, field) IN
    /\ ~exc
    /\ Len(scopes) < MaxDepth
    /\ Apply(e.self)
    /\ scopes' = Append(Dirty(scopes),
                        Frame("denied", _protected, e.actions,
                              field_list(Self, field)))
    /\ last' = Call("denied", "none", "none", Ok, <<>>, NoValue)
    /\ UNCHANGED exc

\* The innermost with-statement ends: its body returned, or an error is
\* propagating out of it. The error leaves the outermost scope to the caller.
ExitScope ==
    /\ scopes # <<>>
    /\ LET after ==
            CASE Top.kind = "protected" ->
                    protected_exit(Self, Top.was_protected, exc)
              [] Top.kind = "exposed" ->
                    exposed_exit(Self, Top.was_protected, exc)
              [] Top.kind = "allowed" -> allowed_exit(Self, Top.actions, exc)
              [] Top.kind = "denied" -> denied_exit(Self, Top.actions, exc)
       IN  Apply(after)
    /\ scopes' = SubSeq(scopes, 1, Len(scopes) - 1)
    /\ last' = [Call("exit", Top.kind, "none",
                     IF exc THEN last.result ELSE Ok, <<>>, NoValue)
                  EXCEPT !.wrote = Top.ghost.wrote]
    /\ exc' = (exc /\ Len(scopes) > 1)

\* The arguments the callers pass.
ActionArgs == {Str("read"), Str("update"), List(<<"read", "update">>)}

AllowFieldArgs == {None, Str("id")}

DenyFieldArgs == {Str("id"), List(<<"id", "nick", "_protected">>)}

FieldNames == {"id", "nick"}

NewValues == {"v1"}

\* Direct calls on an instance: overrides, authorize, field access.
Next ==
    \/ Protect
    \/ Expose
    \/ \E a \in ActionArgs, f \in AllowFieldArgs : Allow(a, f)
    \/ \E a \in ActionArgs, f \in DenyFieldArgs : Deny(a, f)
    \/ \E a \in Actions, k \in Names : AuthorizeCall(a, k)
    \/ \E a \in Actions : AuthorizedFieldsCall(a)
    \/ \E k \in FieldNames, v \in NewValues : SetAttr(k, v)
    \/ \E k \in Names : GetAttr(k)
    \/ \E k \in FieldNames : DelAttr(k)

Spec == Init /\ [][Next]_vars

\* The arguments passed to the context managers and inside their bodies.
ScopedActionArgs == {Str("update"), List(<<"read", "update">>)}

ScopedFieldArgs == {Str("id"), List(<<"id", "nick">>)}

\* Nested with-statements around overrides and writes.
NextScoped ==
    \/ EnterProtected
    \/ EnterExposed
    \/ \E a \in ScopedActionArgs, f \in ScopedFieldArgs : EnterAllowed(a, f)
    \/ \E a \in ScopedActionArgs : EnterDenied(a, Str("id"))
    \/ ExitScope
    \/ Protect
    \/ Expose
    \/ Allow(Str("update"), Str("id"))
    \/ Deny(Str("update"), Str("id"))
    \/ \E k \in FieldNames : SetAttr(k, "v0")

\* An instance of the record type of the docstring example.
InitScoped == Init /\ permissions = DocTable

SpecScoped == InitScoped /\ [][NextScoped]_vars


----------------------------------------------------------------------------
(* Construction: BasePermissionsMixin.__init__ *)

\* The object when the check of the create permissions starts: _protected
\* is False, both override maps are empty, no keyword argument is stored.
fresh(perms) ==
    [_protected |-> FALSE,
     _allowed_fields |-> EmptyFields,
     _forbidden_fields |-> EmptyFields,
     inst_dict |-> [k \in {} |-> "v0"],
     permissions |-> perms]

RECURSIVE check_create_from(_, _, _, _)

\* "for key in kwargs.keys(): self.authorize("create", key)", from the i-th
\* key on; the first check that raises ends the loop
check_create_from(self, keys, i, hook) ==
    IF i > Len(keys)
    THEN [self |-> self, result |-> Ok, hook |-> hook, key |-> "none"]
    ELSE LET r == authorize(self, "create", keys[i])
             after == [self EXCEPT !._protected = r.protected]
         IN  IF r.result.kind # "ok"
             THEN [self |-> after, result |-> r.result,
                   hook |-> hook \o r.hook, key |-> keys[i]]
             ELSE check_create_from(after, keys, i + 1, hook \o r.hook)

\* Mutant of checked: the checks run without "with self.protected():".
checked_unprotected(self, keys, check_create) ==
    IF ~check_create
    THEN [self |-> self, result |-> Ok, hook |-> <<>>, key |-> "none"]
    ELSE check_create_from(self, keys, 1, <<>>)

\* "if check_create: with self.protected(): ..."
checked(self, keys, check_create) ==
    IF ~check_create
    THEN [self |-> self, result |-> Ok, hook |-> <<>>, key |-> "none"]
    ELSE LET e == protected_enter(self)
             c == check_create_from(e.self, keys, 1, <<>>)
         IN  [c EXCEPT !.self = protected_exit(c.self, e.was_protected,
                                               c.result.kind # "ok")]

\* The value the constructor is given for every field.
InitValue == "v0"

RECURSIVE base_init(_, _, _, _)

\* "super().__init__(*args, **kwargs)": the underlying constructor sets
\* every keyword argument as an attribute, which goes through __setattr__
base_init(self, keys, i, hook) ==
    IF i > Len(keys)
    THEN [self |-> self, result |-> Ok, hook |-> hook]
    ELSE LET w == setattr(self, keys[i], InitValue) IN
         IF w.call.result.kind # "ok"
         THEN [self |-> w.self, result |-> w.call.result,
               hook |-> hook \o w.call.hook]
         ELSE base_init(w.self, keys, i + 1, hook \o w.call.hook)

\* Mutant of init: the protected argument is ignored, the instance is
\* always left protected.
init_always_protected(perms, keys, protected, check_create) ==
    LET c == checked(fresh(perms), keys, check_create)
        b == base_init(c.self, keys, 1, c.hook)
    IN  IF c.result.kind # "ok"
        THEN [self |-> c.self,
              call |-> Call("construct", "create", c.key, c.result, c.hook,
                            NoValue)]
        ELSE IF b.result.kind # "ok"
        THEN [self |-> b.self,
              call |-> [Call("construct", "update", "none", b.result, b.hook,
                             NoValue)
                          EXCEPT !.wrote = DOMAIN b.self.inst_dict]]
        ELSE [self |-> [b.self EXCEPT !._protected = TRUE],
              call |-> [Call("construct", "none", "none", Ok, b.hook, NoValue)
                          EXCEPT !.wrote = DOMAIN b.self.inst_dict]]

\* BasePermissionsMixin.__init__(protected=..., check_create=..., **kwargs):
\* the object afterwards and the record of the call (wrote: the keyword
\* arguments stored)
init(perms, keys, protected, check_create) ==
    LET c == checked(fresh(perms), keys, check_create)
        b == base_init(c.self, keys, 1, c.hook)
    IN  IF c.result.kind # "ok"
        THEN [self |-> c.self,
              call |-> Call("construct", "create", c.key, c.result, c.hook,
                            NoValue)]
        ELSE IF b.result.kind # "ok"
        THEN [self |-> b.self,
              call |-> [Call("construct", "update", "none", b.result, b.hook,
                             NoValue)
                          EXCEPT !.wrote = DOMAIN b.self.inst_dict]]
        ELSE [self |-> [b.self EXCEPT !._protected = protected],
              call |-> [Call("construct", "none", "none", Ok, b.hook, NoValue)
                          EXCEPT !.wrote = DOMAIN b.self.inst_dict]]

\* "protected=True" in the signature: the argument, True when omitted
protected_or_default(protected) == protected # "False"

\* The classproperty actions: the actions of the record type's table
table_actions(perms) == UNION {DOMAIN perms[role] : role \in DOMAIN perms}

\* Record(protected=..., check_create=..., **kwargs): a new instance of the
\* record type takes the place of the old one
Construct(keys, protected, check_create) ==
    LET r == init(permissions, keys, protected_or_default(protected),
                  check_create)
    IN
    /\ Apply(r.self)
    /\ last' = r.call
    /\ UNCHANGED <<scopes, exc>>

\* The constructor returned: there is an instance to call.
Constructed == ~(last.op = "construct" /\ last.result.kind # "ok")

\* The keyword arguments, in the order they are passed.
KwargsArgs ==
    {<<>>, <<"id">>, <<"nick">>, <<"id", "nick">>, <<"nick", "id">>}

\* The protected argument: left out, True or False.
ProtectedArgs == {"omitted", "True", "False"}

\* Instances are constructed and then called.
NextInit ==
    \/ \E keys \in KwargsArgs, p \in ProtectedArgs, c \in BOOLEAN :
          Construct(keys, p, c)
    \/ \E a \in Actions, k \in Names : Constructed /\ AuthorizeCall(a, k)
    \/ \E k \in FieldNames, v \in NewValues : Constructed /\ SetAttr(k, v)
    \/ \E k \in Names : Constructed /\ GetAttr(k)

SpecInit == Init /\ [][NextInit]_vars

----------------------------------------------------------------------------
(* The Oso variant: OsoPermissionsMixin.authorize_field and error *)

\* The nesting of authorize calls the interpreter allows before it raises
\* RecursionError (sys.getrecursionlimit(), scaled down).
RecursionLimit == 6

\* What the Oso mixin adds to the class.
OsoClassAttrs == ClassAttrs \cup {"get_oso", "get_anonymous_user", "get_user"}

OsoNames == Names \cup {"get_oso", "get_anonymous_user", "get_user"}

oso_dir(self) == OsoClassAttrs \cup DOMAIN self.inst_dict

\* BasePermissionsMixin.authorizable_fields on an Oso record
oso_authorizable_fields(self) ==
    {key \in oso_dir(self) \cap OsoNames : requires_authorization(self, key)}

RecursionError == [kind |-> "RecursionError", action |-> "none"]

\* The policy engine's own error for a request its policy does not grant.
PolicyError(action) == [kind |-> "PolicyError", action |-> action]

\* The outcome of an engine call of the Oso variant: what it returned or
\* raised, the actions the policy was consulted for, the record and the
\* actor afterwards, and how deep authorize calls were nested under it.
OsoOutcome(result, hook, self, usr, depth) ==
    [result |-> result, hook |-> hook, self |-> self, user |-> usr,
     depth |-> depth]

Max(a, b) == IF a >= b THEN a ELSE b

\* r happened after q, inside the same call.
Then(q, r) == [r EXCEPT !.hook = q.hook \o @, !.depth = Max(q.depth, @)]

\* r happened inside a nested call.
Nested(r) == [r EXCEPT !.depth = @ + 1]

\* with user.exposed(), up to the yield: the actor may be the record itself,
\* another record, or a UserMock, whose exposed() does nothing
user_exposed_enter(self, usr) ==
    CASE usr.kind = "self" ->
            LET e == exposed_enter(self) IN
            [self |-> e.self, user |-> usr, was_protected |-> e.was_protected]
      [] usr.kind = "instance" ->
            LET e == exposed_enter(usr) IN
            [self |-> self, user |-> e.self, was_protected |-> e.was_protected]
      [] OTHER -> [self |-> self, user |-> usr, was_protected |-> FALSE]

\* with user.exposed(), the finally clause
user_exposed_exit(self, usr, was_protected, raising) ==
    CASE usr.kind = "self" ->
            [self |-> exposed_exit(self, was_protected, raising), user |-> usr]
      [] usr.kind = "instance" ->
            [self |-> self, user |-> exposed_exit(usr, was_protected, raising)]
      [] OTHER -> [self |-> self, user |-> usr]

RECURSIVE oso_authorize(_, _, _, _, _, _)
RECURSIVE policy(_, _, _, _, _, _)
RECURSIVE oso_authorize_field(_, _, _, _, _, _)
RECURSIVE oso_error(_, _, _, _, _)

\* The policy reads a field of the actor: actor.authorize("read", "id"),
\* which consults the policy again if the actor requires authorization.
actor_read(self, usr, pol) ==
    LET actor == IF usr.kind = "self" THEN self ELSE usr IN
    IF usr.kind \in {"self", "instance"}
       /\ requires_authorization(actor, "id")
    THEN OsoOutcome(IF <<"read", "id">> \in pol THEN Ok ELSE PolicyError("read"),
                    <<"read">>, self, usr, 2)
    ELSE OsoOutcome(Ok, <<>>, self, usr, 1)

\* get_oso().authorize_field(user, action, self, key): the policy reads the
\* actor and the record, then grants the request or raises
policy(self, usr, pol, action, key, fuel) ==
    LET a == actor_read(self, usr, pol)
        r == Then(a, oso_authorize(a.self, a.user, pol, "read", "id", fuel))
    IN  IF a.result.kind # "ok" THEN a
        ELSE IF r.result.kind # "ok" THEN r
        ELSE Then(r, OsoOutcome(IF <<action, key>> \in pol THEN Ok
                                ELSE PolicyError(action),
                                <<action>>, r.self, r.user, 0))

\* OsoPermissionsMixin.authorize_field (self.get_user and self.get_oso are
\* attribute reads of the record)
oso_authorize_field(self, usr, pol, action, key, fuel) ==
    LET u == oso_authorize(self, usr, pol, "read", "get_user", fuel)
        e == user_exposed_enter(u.self, u.user)
        g == Then(u, oso_authorize(e.self, e.user, pol, "read", "get_oso",
                                   fuel))
        p == IF g.result.kind # "ok" THEN g
             ELSE Then(g, policy(g.self, g.user, pol, action, key, fuel))
        x == user_exposed_exit(p.self, p.user, e.was_protected,
                               p.result.kind # "ok")
    IN  IF u.result.kind # "ok" THEN u
        ELSE IF usr.kind = "None" THEN p
        ELSE [p EXCEPT !.self = x.self, !.user = x.user]

\* OsoPermissionsMixin.error: self.get_oso is an attribute read
oso_error(self, usr, pol, action, fuel) ==
    LET g == oso_authorize(self, usr, pol, "read", "get_oso", fuel) IN
    IF g.result.kind # "ok" THEN g ELSE [g EXCEPT !.result = error(action)]

\* BasePermissionsMixin.authorize on an Oso record; fuel is the nesting the
\* interpreter still allows. Reads of exempt names return at the classifier.
oso_authorize(self, usr, pol, action, key, fuel) ==
    IF fuel = 0
    THEN OsoOutcome(RecursionError, <<>>, self, usr, 0)
    ELSE IF key = "requires_authorization"
            \/ ~requires_authorization(self, key)
    THEN OsoOutcome(Ok, <<>>, self, usr, 1)
    ELSE IF key \in self._forbidden_fields[action]
    THEN IF action = "read"
         THEN Nested(oso_error(self, usr, pol, "read", fuel - 1))
         ELSE LET r == oso_authorize(self, usr, pol, "read", key, fuel - 1)
              IN  IF r.result.kind # "ok"
                  THEN Nested(r)
                  ELSE Nested(Then(r, oso_error(r.self, r.user, pol, action,
                                                fuel - 1)))
    ELSE IF /\ key \in oso_authorizable_fields(self)
            /\ key \notin self._allowed_fields[action]
    THEN LET e == exposed_enter(self)
             r == oso_authorize_field(e.self, usr, pol, action, key, fuel - 1)
             after == exposed_exit(r.self, e.was_protected,
                                   r.result.kind # "ok")
         IN  Nested([r EXCEPT !.self = after])
    ELSE OsoOutcome(Ok, <<>>, self, usr, 1)

\* allow / deny on an Oso record: None is every authorizable field
oso_field_list(self, field) ==
    IF field.type = "None"
    THEN oso_authorizable_fields(self)
    ELSE Range(field.v)

\* BasePermissionsMixin.deny on an Oso record
oso_deny(self, action, field) ==
    [self EXCEPT !._forbidden_fields =
        assign_fields(@, action_list(action), oso_field_list(self, field))]

\* The actors get_user() may return: None, the anonymous UserMock, the
\* record itself, another record (protected or exposed).
Users ==
    {[kind |-> "None", _protected |-> FALSE],
     UserMock,
     [kind |-> "self", _protected |-> FALSE]}
    \cup {[kind |-> "instance", _protected |-> b] : b \in BOOLEAN}

\* The policies of the engine, as the (action, field) pairs they grant.
Policies ==
    {{},
     {<<"read", "id">>, <<"read", "get_oso">>},
     {<<"update", "id">>}}

\* An Oso record, its actor and the policy engine.
InitOso ==
    /\ InitInstance
    /\ permissions = DocTable
    /\ user \in Users
    /\ oso \in Policies
    /\ InitCompiler

\* record.authorize(action, key) on an Oso record
OsoAuthorizeCall(action, key) ==
    LET r == oso_authorize(Self, user, oso, action, key, RecursionLimit) IN
    /\ _protected' = r.self._protected
    /\ user' = r.user
    /\ last' = Call("oso_authorize", action, key, r.result, r.hook, NoValue)
                 @@ [depth |-> r.depth]
    /\ UNCHANGED <<_allowed_fields, _forbidden_fields, inst_dict, permissions,
                   scopes, exc, oso, heap, compiled, thread>>

\* record.deny(action, field) on an Oso record
OsoDeny(action, field) ==
    /\ Apply(oso_deny(Self, action, field))
    /\ last' = [Call("deny", "none", "none", Ok, <<>>, NoValue)
                  EXCEPT !.returned = action_list(action)]
    /\ UNCHANGED <<scopes, exc>>

\* actor.protect() / actor.expose() on an actor that is another record
ActorProtect ==
    /\ user.kind = "instance"
    /\ user' = protect(user)
    /\ last' = Call("actor_protect", "none", "none", Ok, <<>>, NoValue)
    /\ UNCHANGED <<_protected, _allowed_fields, _forbidden_fields, inst_dict,
                   permissions, scopes, exc, oso, heap, compiled, thread>>

ActorExpose ==
    /\ user.kind = "instance"
    /\ user' = expose(user)
    /\ last' = Call("actor_expose", "none", "none", Ok, <<>>, NoValue)
    /\ UNCHANGED <<_protected, _allowed_fields, _forbidden_fields, inst_dict,
                   permissions, scopes, exc, oso, heap, compiled, thread>>

OsoActions == {"read", "update"}

OsoKeys == {"id", "nick", "_protected", "get_oso"}

OsoDenyFieldArgs == {None, Str("id")}

\* Calls on an Oso record and its actor.
NextOso ==
    \/ Protect
    \/ Expose
    \/ \E a \in OsoActions : Allow(Str(a), Str("id"))
    \/ \E a \in OsoActions, f \in OsoDenyFieldArgs : OsoDeny(Str(a), f)
    \/ ActorProtect
    \/ ActorExpose
    \/ \E a \in OsoActions, k \in OsoKeys : OsoAuthorizeCall(a, k)

SpecOso == InitOso /\ [][NextOso]_vars

----------------------------------------------------------------------------
(* Two records and two threads: record.authorize with another record as   *)
(* its actor, interleaved with calls on the actor                          *)

\* The actor as a record of its own: constructed with an id, no overrides.
Actor ==
    [_protected |-> user._protected,
     _allowed_fields |-> EmptyFields,
     _forbidden_fields |-> EmptyFields,
     inst_dict |-> [k \in {"id"} |-> "v0"],
     permissions |-> permissions]

\* record.authorize(action, key) up to the call of the policy engine: the
\* classifier and the overrides send the request to the hook, "with
\* self.exposed():" is entered, get_user() is read and "with
\* user.exposed():" is entered
AuthorizeBegin(action, key) ==
    LET e == exposed_enter(Self)
        u == user_exposed_enter(e.self, user)
    IN  /\ thread.pc = "idle"
        /\ requires_authorization(Self, key)
        /\ key \notin _forbidden_fields[action]
        /\ key \in oso_authorizable_fields(Self)
        /\ key \notin _allowed_fields[action]
        /\ _protected' = u.self._protected
        /\ user' = u.user
        /\ thread' = [pc |-> "policy", action |-> action, key |-> key,
                      was_protected |-> e.was_protected,
                      user_was_protected |-> u.was_protected]
        /\ last' = Call("authorize_begin", action, key, Ok, <<>>, NoValue)
        /\ UNCHANGED <<_allowed_fields, _forbidden_fields, inst_dict,
                       permissions, scopes, exc, oso, heap, compiled>>

\* The engine answered p: the finally clauses of "with user.exposed():" and
\* of "with self.exposed():" run, and authorize returns or raises
Finish(p) ==
    LET raising == p.result.kind # "ok"
        x == user_exposed_exit(p.self, p.user, thread.user_was_protected,
                               raising)
        after == exposed_exit(x.self, thread.was_protected, raising)
    IN  /\ _protected' = after._protected
        /\ user' = x.user
        /\ last' = Call("oso_authorize", thread.action, thread.key, p.result,
                        p.hook, NoValue)

\* The rest of that call: the policy engine answers and the scopes close
AuthorizeEnd ==
    /\ thread.pc = "policy"
    /\ Finish(policy(Self, user, oso, thread.action, thread.key,
                     RecursionLimit))
    /\ thread' = Idle
    /\ UNCHANGED <<_allowed_fields, _forbidden_fields, inst_dict,
                   permissions, scopes, exc, oso, heap, compiled>>

\* actor.authorize(action, key), called by another thread whose own user is
\* the anonymous UserMock
Answered(action, key, r) ==
    /\ user' = [user EXCEPT !._protected = r.self._protected]
    /\ last' = Call("actor_authorize", action, key, r.result, r.hook, NoValue)

ActorAuthorize(action, key) ==
    /\ user.kind = "instance"
    /\ Answered(action, key,
                oso_authorize(Actor, UserMock, oso, action, key,
                              RecursionLimit))
    /\ UNCHANGED <<_protected, _allowed_fields, _forbidden_fields, inst_dict,
                   permissions, scopes, exc, oso, heap, compiled, thread>>

ActorKeys == {"id", "nick"}

\* A protected record as the actor of another record.
InitThreads ==
    /\ InitInstance
    /\ permissions = DocTable
    /\ user = [kind |-> "instance", _protected |-> TRUE]
    /\ oso \in Policies
    /\ InitCompiler

\* One thread calls the record, one after the other; a second thread calls
\* the actor at any moment.
NextThreads ==
    \/ thread.pc = "idle" /\ Protect
    \/ thread.pc = "idle" /\ Expose
    \/ \E a \in OsoActions : thread.pc = "idle" /\ Allow(Str(a), Str("id"))
    \/ \E a \in OsoActions, k \in ActorKeys : AuthorizeBegin(a, k)
    \/ AuthorizeEnd
    \/ \E a \in OsoActions, k \in ActorKeys : ActorAuthorize(a, k)

SpecThreads == InitThreads /\ [][NextThreads]_vars

----------------------------------------------------------------------------
(* The rule compiler: BasePermissionsMixin.load_permissions *)

\* A list of field names is an object: heap[n] holds the elements of the
\* list with identity n. A list the compiler creates (["*"]) has identity 0
\* and carries its elements.
Ref(n) == [id |-> n, v |-> <<>>]

Wildcard == [id |-> 0, v |-> <<"*">>]

Deref(h, entry) == IF entry.id = 0 THEN entry.v ELSE h[entry.id]

\* {}
EmptyDict == [x \in {} |-> <<>>]

\* d[k] = v
Put(d, k, v) == [x \in DOMAIN d \cup {k} |-> IF x = k THEN v ELSE d[x]]

\* permissions.get("public", {}).get(action, [])
public_fields(perm, h, action) ==
    IF "public" \in DOMAIN perm
    THEN IF action \in DOMAIN perm["public"]
         THEN Deref(h, perm["public"][action])
         ELSE <<>>
    ELSE <<>>

RECURSIVE sugar(_, _, _)

\* "for action_name in cls.DEFAULT_ACTIONS: action = kwargs.pop(...)", from
\* the i-th built-in action on
sugar(kw, perm, i) ==
    IF i > Len(DEFAULT_ACTIONS)
    THEN perm
    ELSE LET action_name == DEFAULT_ACTIONS[i] IN
         IF /\ action_name \in DOMAIN kw.sugar
            /\ kw.sugar[action_name].type = "list"
         THEN sugar(kw,
                    Put(perm, "public",
                        [a \in {action_name} |->
                            kw.sugar[action_name].fields]),
                    i + 1)
         ELSE sugar(kw, perm, i + 1)

\* The values of the shorthand: a list of fields, a bare action, a pair of
\* actions (a str or a list) and a list of fields, a list of rules, a dict
\* of action -> fields, "*".
Fields(n) == [type |-> "list", fields |-> Ref(n)]

Bare(action) == [type |-> "str", actions |-> Str(action), fields |-> Wildcard]

Pair(actions, n) == [type |-> "tuple", actions |-> actions, fields |-> Ref(n)]

RuleList(rs) == [type |-> "list", v |-> rs]

Dict(d) == [type |-> "dict", v |-> d]

Star == [type |-> "str", v |-> "*"]

Role(role, permission) == [role |-> role, permission |-> permission]

\* The actions a rule names: "<action>", or the action side of a pair
rule_actions(rule) == Range(action_list(rule.actions))

\* The actions the discovery loop finds in one role's permission: none in a
\* str, the keys of a dict, the actions of the rules of a list
mentioned(permission) ==
    CASE permission.type = "str" -> {}
      [] permission.type = "dict" -> DOMAIN permission.v
      [] OTHER ->
            UNION {rule_actions(permission.v[j]) :
                      j \in 1..Len(permission.v)}

\* Mutant of action_universe: the roles are not scanned for actions.
action_universe_builtin_only(kw) ==
    IF kw.actions.type = "list"
    THEN Range(kw.actions.v)
    ELSE Range(DEFAULT_ACTIONS)

\* "if type(actions) is not list: ...": the list given, or the built-in
\* actions and every action the roles mention
action_universe(kw) ==
    IF kw.actions.type = "list"
    THEN Range(kw.actions.v)
    ELSE Range(DEFAULT_ACTIONS)
         \cup UNION {mentioned(kw.roles[i].permission) :
                        i \in 1..Len(kw.roles)}

RECURSIVE pair(_, _, _, _, _)

\* "for action in role_actions: fields += ...; permissions[role][action] =
\* fields", from the k-th action on; fields is the list with identity fid
pair(st, role, role_actions, fid, k) ==
    IF k > Len(role_actions)
    THEN st
    ELSE LET action == role_actions[k]
             h == [st.heap EXCEPT ![fid] =
                      @ \o public_fields(st.perm, st.heap, action)]
             perm == [st.perm EXCEPT ![role] = Put(@, action, Ref(fid))]
         IN  pair([perm |-> perm, heap |-> h], role, role_actions, fid, k + 1)

RECURSIVE rules(_, _, _, _)

\* "for rule in permission:", from the j-th rule on
rules(st, role, permission, j) ==
    IF j > Len(permission)
    THEN st
    ELSE LET rule == permission[j] IN
         IF rule.type = "str"
         THEN rules([st EXCEPT !.perm[role] =
                                   Put(@, rule.actions.v[1], Wildcard)],
                    role, permission, j + 1)
         ELSE rules(pair(st, role, action_list(rule.actions), rule.fields.id,
                         1),
                    role, permission, j + 1)

\* Mutant of expand: a role given as a dict is expanded like a rule list,
\* each key a bare action.
expand_dict_as_rules(st, role, permission, actions) ==
    CASE permission.type = "dict" ->
            [st EXCEPT !.perm =
                Put(@, role, [a \in DOMAIN permission.v |-> Wildcard])]
      [] permission.type = "str" /\ permission.v = "*" ->
            [st EXCEPT !.perm = Put(@, role, [a \in actions |-> Wildcard])]
      [] OTHER ->
            rules([st EXCEPT !.perm = Put(@, role, EmptyDict)], role,
                  permission.v, 1)

\* The body of "for (role, permission) in kwargs.items():"
expand(st, role, permission, actions) ==
    CASE permission.type = "dict" ->
            [st EXCEPT !.perm = Put(@, role, permission.v)]
      [] permission.type = "str" /\ permission.v = "*" ->
            [st EXCEPT !.perm = Put(@, role, [a \in actions |-> Wildcard])]
      [] OTHER ->
            rules([st EXCEPT !.perm = Put(@, role, EmptyDict)], role,
                  permission.v, 1)

RECURSIVE roles(_, _, _, _)

\* "for (role, permission) in kwargs.items():", from the i-th role on
roles(st, kw, actions, i) ==
    IF i > Len(kw.roles)
    THEN st
    ELSE roles(expand(st, kw.roles[i].role, kw.roles[i].permission, actions),
               kw, actions, i + 1)

\* BasePermissionsMixin.load_permissions(actions=..., **kwargs) with the
\* lists of the program in h: the table it returns (perm) and the lists
\* afterwards (heap)
load_permissions(h, kw) ==
    roles([perm |-> sugar(kw, EmptyDict, 1), heap |-> h], kw,
          action_universe(kw), 1)

\* The table as values: every field list replaced by its elements.
Value(h, perm) ==
    [r \in DOMAIN perm |-> [a \in DOMAIN perm[r] |-> Deref(h, perm[r][a])]]

\* The table as field-sets: every field list replaced by its members.
Members(h, perm) ==
    [r \in DOMAIN perm |->
        [a \in DOMAIN perm[r] |-> Range(Deref(h, perm[r][a]))]]

\* The longest field list explored.
MaxLen == 5

\* The shorthands passed to load_permissions: the public sugar, ...
SugarArgs ==
    {EmptyDict,
     [a \in {"read"} |-> Fields(1)],
     [a \in {"read", "update"} |-> IF a = "read" THEN Fields(1) ELSE Fields(4)]}

\* ... the explicit action list, ...
ActionListArgs == {None, List(<<"read">>)}

\* ... and the roles, in the order of the keyword arguments.
RoleArgs ==
    {<<>>,
     <<Role("self", RuleList(<<Pair(List(<<"read", "update">>), 3)>>))>>,
     <<Role("self", RuleList(<<Pair(List(<<"create", "update">>), 2),
                               Bare("read"), Bare("custom_action")>>)),
       Role("friend", RuleList(<<Pair(Str("read"), 3)>>)),
       Role("admin", Star)>>,
     <<Role("public", Dict([a \in {"read", "update"} |->
                               IF a = "read" THEN Ref(1) ELSE Ref(4)])),
       Role("self", RuleList(<<Pair(List(<<"read", "update">>), 3)>>)),
       Role("admin", Star)>>,
     <<Role("friend", Dict([a \in {"publish"} |-> Ref(3)])),
       Role("admin", Star)>>}

Shorthands ==
    {[sugar |-> s, actions |-> a, roles |-> r] :
        s \in SugarArgs, a \in ActionListArgs, r \in RoleArgs}

\* The order of the roles of a compiled table.
RoleOrder == <<"public", "self", "friend", "admin">>

\* A compiled table passed back as keyword arguments: every role a dict.
AsShorthand(perm) ==
    [sugar |-> EmptyDict,
     actions |-> None,
     roles |-> LET present == SelectSeq(RoleOrder,
                                        LAMBDA r : r \in DOMAIN perm)
               IN  [i \in 1..Len(present) |->
                       Role(present[i], Dict(perm[present[i]]))]]

\* The call load_permissions(**kw) as recorded: its input, the table it
\* returned and the table's value at that moment.
Compiled(kw, r) ==
    [done |-> TRUE, kwargs |-> kw, table |-> r.perm,
     value |-> Value(r.heap, r.perm)]

\* No list outgrows the lists explored.
Fits(h) == \A n \in DOMAIN h : Len(h[n]) <= MaxLen

\* A class definition calls load_permissions with a shorthand.
LoadPermissions(kw) ==
    LET r == load_permissions(heap, kw) IN
    /\ Fits(r.heap)
    /\ heap' = r.heap
    /\ compiled' = Compiled(kw, r)
    /\ UNCHANGED <<instance, user, oso, thread>>

\* The permissions setter: load_permissions(**value) with the table compiled
\* last.
Recompile ==
    LET kw == AsShorthand(compiled.table)
        r == load_permissions(heap, kw)
    IN  /\ compiled.done
        /\ Fits(r.heap)
        /\ heap' = r.heap
        /\ compiled' = Compiled(kw, r)
        /\ UNCHANGED <<instance, user, oso, thread>>

NextCompiler ==
    \/ \E kw \in Shorthands : LoadPermissions(kw)
    \/ Recompile

InitRules ==
    /\ InitInstance
    /\ _protected
    /\ permissions = DocTable
    /\ user = UserMock
    /\ oso = {}
    /\ InitCompiler

SpecCompiler == InitRules /\ [][NextCompiler]_vars

----------------------------------------------------------------------------
(* The permissions accessor of an instance *)

\* The dicts assigned through the accessor: {}, {"read": [...]} and
\* {"read": [...], "update": [...]}.
TableArgs ==
    {kw \in Shorthands : kw.actions = None /\ kw.roles = <<>>}

\* record.permissions = value. __setattr__ authorizes an update of
\* "permissions", which is exempt, and the property's setter stores
\* load_permissions(**value) as the instance's own __permissions__, the
\* attribute the getter reads from then on.
SetPermissions(kw) ==
    LET r == load_permissions(heap, kw) IN
    /\ ~exc
    /\ Fits(r.heap)
    /\ heap' = r.heap
    /\ permissions' = Value(r.heap, r.perm)
    /\ last' = Call("set_permissions", "update", "permissions", Ok, <<>>,
                    NoValue)
    /\ UNCHANGED <<_protected, _allowed_fields, _forbidden_fields, inst_dict,
                   scopes, exc, user, oso, compiled, thread>>

\* The calls on one field of a record whose table may be assigned.
NextTable ==
    \/ Protect
    \/ Expose
    \/ Allow(Str("read"), Str("id"))
    \/ Deny(Str("update"), Str("id"))
    \/ \E a \in {"read", "update"} : AuthorizeCall(a, "id")
    \/ AuthorizedFieldsCall("read")
    \/ \E v \in NewValues : SetAttr("id", v)
    \/ GetAttr("id")
    \/ DelAttr("id")
    \/ \E kw \in TableArgs : SetPermissions(kw)

SpecTable == Init /\ [][NextTable]_vars

----------------------------------------------------------------------------
(* Properties of the decision engine (Spec) *)

\* The last call was authorize(action, key) on a key that requires
\* authorization.
Authorized(action, key) ==
    /\ last.op = "authorize"
    /\ last.action = action
    /\ last.key = key
    /\ requires_authorization(Self, key)

\* The policy lookup grants (action, key): the key is listed for the public
\* role.
Granted(action, key) ==
    /\ "public" \in DOMAIN permissions
    /\ action \in DOMAIN permissions["public"]
    /\ \E i \in 1..Len(permissions["public"][action]) :
          permissions["public"][action][i] = key

\* C1: deny by default. When authorization is enabled and the field is not
\* exempt, authorize(a, f) returns without consulting authorize_field only
\* if f is in allowed[a], for every field name, attribute or not.
C1_DenyByDefault ==
    \A a \in Actions, f \in Names :
        (/\ Authorized(a, f)
         /\ last.result.kind = "ok"
         /\ last.hook = <<>>)
        => f \in _allowed_fields[a]

\* C2: a deny override always wins. If f requires authorization and is in
\* denied[a], authorize(a, f) raises, whatever the allow overrides and the
\* permission table contain.
C2_DenyWins ==
    \A a \in Actions, f \in Names :
        (requires_authorization(Self, f) /\ f \in _forbidden_fields[a])
        => /\ authorize(Self, a, f).result.kind # "ok"
           /\ Authorized(a, f) => last.result.kind # "ok"

\* authorize("update", "id") raised although id is in denied["update"] and
\* in allowed["update"] and the table grants update on id to public.
C2_Witness ==
    /\ Authorized("update", "id")
    /\ "id" \in _forbidden_fields["update"]
    /\ "id" \in _allowed_fields["update"]
    /\ Granted("update", "id")
    /\ last.result.kind # "ok"

ReadRecheckPasses(f) ==
    \/ f \in _allowed_fields["read"]
    \/ Granted("read", f)
    \/ f \notin ClassAttrs \cup DOMAIN inst_dict

C5_ExemptNeverRaises ==
    \A a \in Actions, f \in Names :
        ~requires_authorization(Self, f)
        => /\ authorize(Self, a, f) = Outcome(Ok, <<>>, _protected)
           /\ (last.op = "authorize" /\ last.action = a /\ last.key = f)
              => last.result = Ok

\* authorize("update", "_protected") returned on a protected instance with
\* _protected in denied["update"].
C5_Witness ==
    /\ last.op = "authorize"
    /\ last.action = "update"
    /\ last.key = "_protected"
    /\ _protected
    /\ "_protected" \in _forbidden_fields["update"]
    /\ last.result = Ok

\* C6: the table decision. For an authorizable field f of a protected
\* instance that is in neither denied[a] nor allowed[a], authorize(a, f)
\* consults the lookup for a and returns iff it grants (a, f); otherwise it
\* raises NotFound for read and Forbidden for any other action.
C6_TableDecision ==
    \A a \in Actions, f \in (ClassAttrs \cup DOMAIN inst_dict) \cap Names :
        (/\ requires_authorization(Self, f)
         /\ f \notin _forbidden_fields[a]
         /\ f \notin _allowed_fields[a])
        => LET expected ==
                  IF Granted(a, f)
                  THEN Ok
                  ELSE [kind |-> IF a = "read" THEN "NotFound"
                                 ELSE "Forbidden",
                        action |-> a]
           IN  /\ authorize(Self, a, f) = Outcome(expected, <<a>>, _protected)
               /\ Authorized(a, f) => last.result = expected

\* authorize("update", "nick") raised Forbidden for an attribute that public
\* may neither update nor read.
C6_Witness ==
    /\ Authorized("update", "nick")
    /\ "nick" \in DOMAIN inst_dict
    /\ "nick" \notin _forbidden_fields["update"]
    /\ "nick" \notin _allowed_fields["update"]
    /\ ~Granted("read", "nick")
    /\ last.result = [kind |-> "Forbidden", action |-> "update"]

\* C7: a wildcard field-set grants every field. If the public role's
\* field-set for the action is the wildcard, authorize lets every
\* authorizable field through the table lookup.
C7_WildcardGrants ==
    \A a \in Actions, f \in (ClassAttrs \cup DOMAIN inst_dict) \cap Names :
        (/\ Authorized(a, f)
         /\ f \notin _forbidden_fields[a]
         /\ f \notin _allowed_fields[a]
         /\ authorized_fields_for(Self, "public", a) = <<"*">>)
        => last.result = Ok

\* C13: every field read, write and delete calls authorize(read | update |
\* delete, field) first, and when authorize raises the operation is not
\* performed: the call raises what authorize raised, a failed write or delete
\* leaves every attribute as it was, a failed read returns no value; when
\* authorize returns, the write stores the value, the read returns the
\* attribute's value and the delete removes the attribute.
C13_AuthorizeBeforeAccess ==
    [][/\ \A k \in FieldNames, v \in NewValues :
            (last'.op = "set" /\ last'.key = k /\ SetAttr(k, v))
            => LET r == authorize(Self, "update", k) IN
               /\ last'.hook = r.hook
               /\ IF r.result.kind # "ok"
                  THEN last'.result = r.result /\ inst_dict' = inst_dict
                  ELSE last'.result = Ok /\ inst_dict'[k] = v
       /\ \A k \in Names :
            (last'.op = "get" /\ last'.key = k /\ GetAttr(k))
            => LET r == authorize(Self, "read", k) IN
               /\ last'.hook = r.hook
               /\ inst_dict' = inst_dict
               /\ IF r.result.kind # "ok"
                  THEN last'.result = r.result /\ last'.value = NoValue
                  ELSE k \in DOMAIN inst_dict
                       => last'.result = Ok /\ last'.value = inst_dict[k]
       /\ \A k \in FieldNames :
            (last'.op = "del" /\ last'.key = k /\ DelAttr(k))
            => LET r == authorize(Self, "delete", k) IN
               /\ last'.hook = r.hook
               /\ IF r.result.kind # "ok"
                  THEN last'.result = r.result /\ inst_dict' = inst_dict
                  ELSE k \notin DOMAIN inst_dict']_vars

\* A write of id was refused as Forbidden after the policy lookup: id holds
\* the value it had.
C13_Witness ==
    /\ last.op = "set"
    /\ last.key = "id"
    /\ last.hook = <<"update">>
    /\ last.result = [kind |-> "Forbidden", action |-> "update"]
    /\ inst_dict["id"] = "v0"

----------------------------------------------------------------------------
(* Properties of the context managers (SpecScoped) *)

\* The innermost open scope is allowed("update", fields) with F among the
\* fields.
InAllowedUpdate(F) ==
    /\ scopes # <<>>
    /\ Top.kind = "allowed"
    /\ Top.actions = <<"update">>
    /\ F \in Top.fields

C9_ScopeExitClears ==
    [][(scopes # <<>> /\ Top.kind \in {"allowed", "denied"} /\ ExitScope)
       => LET touched == {Top.actions[i] : i \in 1..Len(Top.actions)}
              cleared(map) ==
                  [a \in Actions |-> IF a \in touched THEN {} ELSE map[a]]
          IN  IF Top.kind = "allowed"
              THEN /\ _allowed_fields' = cleared(_allowed_fields)
                   /\ _forbidden_fields' = _forbidden_fields
              ELSE /\ _forbidden_fields' = cleared(_forbidden_fields)
                   /\ _allowed_fields' = _allowed_fields]_vars

\* A denied scope has ended on an error raised in its body: its entry is
\* empty and the allow override made before is still there.
C9_Witness ==
    /\ last.op = "exit"
    /\ last.action = "denied"
    /\ last.result.kind # "ok"
    /\ _forbidden_fields["update"] = {}
    /\ _allowed_fields["update"] # {}

\* C10: when a protected() or exposed() scope ends, by return or by an
\* error, self._protected is what it was when the scope was entered.
C10_FlagRestored ==
    [][(scopes # <<>> /\ Top.kind \in {"protected", "exposed"} /\ ExitScope)
       => _protected' = Top.entry_protected]_vars

\* A protected() scope nested in an exposed() scope of a protected instance
\* has ended on an error: the instance is exposed.
C10_Witness ==
    /\ last.op = "exit"
    /\ last.action = "protected"
    /\ last.result.kind # "ok"
    /\ Len(scopes) = 1
    /\ scopes[1].kind = "exposed"
    /\ scopes[1].entry_protected
    /\ ~_protected

----------------------------------------------------------------------------
(* Properties of the Oso variant (SpecOso) *)

\* C11: authorize has no net effect on the authorization context. Whether
\* it returns or raises, also when the policy raises, the record's
\* _protected is the same after the call as before it, for the lookup of the
\* base class and for the Oso hook; and so is the _protected of the actor the
\* Oso hook exposed, also when the actor is the record itself.
C11_NoNetEffect ==
    /\ [](\A a \in Actions, f \in Names :
            authorize(Self, a, f).protected = _protected)
    /\ [][\A a \in OsoActions, k \in OsoKeys :
            OsoAuthorizeCall(a, k)
            => /\ _protected' = _protected
               /\ user' = user]_vars

\* The policy raised for update on id while the record was protected and
\* its actor, another protected record, was exposed for the consultation.
C11_Witness ==
    /\ last.op = "oso_authorize"
    /\ last.action = "update"
    /\ last.hook = <<"update">>
    /\ last.result.kind = "PolicyError"
    /\ _protected
    /\ user = [kind |-> "instance", _protected |-> TRUE]

\* C12: authorize always terminates. For every context, actor and policy,
\* the authorize calls nested under authorize(a, f) (the read re-check of
\* the denied branch, the attribute reads of the engine and of the policy
\* hook) stay below the interpreter's limit: no call ends in RecursionError.
C12_BoundedRecursion ==
    last.op = "oso_authorize"
    => /\ last.result.kind # "RecursionError"
       /\ last.depth < RecursionLimit

----------------------------------------------------------------------------
(***************************************************************************)
(* Properties of the field classifier (Spec) *)
(***************************************************************************)

\* The names the storage layer reserves on a record.
ReservedNames == {"metadata", "registry", "query", "query_class"}

\* The names the mixin keeps its own state under.
BookkeepingNames ==
    {"_protected", "_allowed_fields", "_forbidden_fields", "permissions"}

\* Names that begin and end with two underscores, of lengths 4, 5, 6 and 6.
WrappedNames == {"____", "__a__", "__ab__", "______"}

\* C23: in every instance state the reserved names metadata, registry, query
\* and query_class, the bookkeeping names and every attribute defined on the
\* mixin do not require authorization, and on a protected instance a name
\* wrapped in double underscores is exempt exactly when it is longer than 5
\* characters.
C23_ClassifierExemptions ==
    /\ \A key \in ReservedNames \cup BookkeepingNames \cup MixinDictKeys :
         ~requires_authorization(Self, key)
    /\ \A key \in WrappedNames :
         ~requires_authorization(protect(Self), key)
           <=> Len(Chars(key)) > 5

(***************************************************************************)
(* Properties of a failing policy lookup (Spec) *)
(***************************************************************************)

\* The calls that go through authorize.
GuardedOps == {"authorize", "set", "get", "del"}

\* C24: when the policy lookup consulted by a call raises, the call raises
\* that error, the field operation it guards is not performed (nothing is
\* stored or removed and no value is returned), and self._protected is what
\* it was before the call.
C24_FailsClosed ==
    [][\A a \in Actions :
         LET raised == authorize_field(expose(Self), a, last'.key) IN
         (/\ last'.op \in GuardedOps
          /\ last'.hook # <<>>
          /\ last'.hook[Len(last'.hook)] = a
          /\ raised.kind # "ok")
         => /\ last'.result = raised
            /\ inst_dict' = inst_dict
            /\ last'.value = NoValue
            /\ _protected' = _protected]_vars

\* The table was consulted for a read of id and refused it: no value was
\* returned and the record is protected as before.
C24_Witness ==
    /\ last.op = "get"
    /\ last.key = "id"
    /\ last.hook = <<"read">>
    /\ last.result.kind = "NotFound"
    /\ last.value = NoValue
    /\ "id" \in DOMAIN inst_dict
    /\ _protected

(***************************************************************************)
(* Properties of the frame of the override operations (Spec) *)
(***************************************************************************)

\* The entries of the actions outside names are the same in map and in
\* after.
OtherEntriesKept(map, after, names) ==
    \A a \in DOMAIN map \ names : after[a] = map[a]

\* C26: allow(actions, fields) records the fields under the named actions
\* of _allowed_fields and leaves the entries of the other actions,
\* _forbidden_fields and _protected unchanged; deny does the same on
\* _forbidden_fields; protect() and expose() set _protected and leave both
\* maps unchanged; allow and deny return the action list, a str wrapped in
\* a list, which holds exactly the keys they wrote.
C26_OverrideFrame ==
    [][/\ last'.op = "allow"
            => \A action \in ActionArgs, field \in AllowFieldArgs :
                 Allow(action, field)
                 => /\ last'.returned = action.v
                    /\ \A a \in Range(action.v) :
                         _allowed_fields'[a] = field_list(Self, field)
                    /\ OtherEntriesKept(_allowed_fields, _allowed_fields',
                                        Range(last'.returned))
                    /\ _forbidden_fields' = _forbidden_fields
                    /\ _protected' = _protected
       /\ last'.op = "deny"
            => \A action \in ActionArgs, field \in DenyFieldArgs :
                 Deny(action, field)
                 => /\ last'.returned = action.v
                    /\ \A a \in Range(action.v) :
                         _forbidden_fields'[a] = field_list(Self, field)
                    /\ OtherEntriesKept(_forbidden_fields, _forbidden_fields',
                                        Range(last'.returned))
                    /\ _allowed_fields' = _allowed_fields
                    /\ _protected' = _protected
       /\ (last'.op = "protect" /\ Protect)
            => /\ _protected'
               /\ _allowed_fields' = _allowed_fields
               /\ _forbidden_fields' = _forbidden_fields
       /\ (last'.op = "expose" /\ Expose)
            => /\ ~_protected'
               /\ _allowed_fields' = _allowed_fields
               /\ _forbidden_fields' = _forbidden_fields]_vars

\* allow("read", "id") was called on a protected record that had overrides
\* for update in both maps: they are still there.
C26_Witness ==
    /\ last.op = "allow"
    /\ last.returned = <<"read">>
    /\ _allowed_fields["read"] = {"id"}
    /\ _allowed_fields["update"] = {"id", "nick"}
    /\ _forbidden_fields["update"] # {}
    /\ _protected

(* Properties of the default fields and of the batch enumeration (Spec) *)

\* C19: allow(actions) with the fields omitted records, for each named
\* action, every authorizable field of the record, protected or exposed at
\* the moment of the call: every field that requires authorization once
\* the instance is protected.
C19_DefaultFields ==
    [][\A a \in ActionArgs :
         Allow(a, None)
         => \A x \in Range(action_list(a)) :
              _allowed_fields'[x] = authorizable_fields(protect(Self))]_vars

\* C20: authorized_fields(action) raises nothing and returns the collection
\* of exactly the authorizable fields f for which authorize(action, f) does
\* not raise, also when no field is authorizable.
C20_BatchEnumeration ==
    last.op = "authorized_fields"
    => /\ last.result.kind = "ok"
       /\ last.ret.type = "list"
       /\ Range(last.ret.v) =
             {f \in authorizable_fields(Self) :
                 authorize(Self, last.action, f).result.kind = "ok"}

----------------------------------------------------------------------------
(* Properties of construction (SpecInit) *)

\* The outcome of authorize("create", key) on the new object with
\* authorization enabled.
CreateCheck(key) == authorize(protect(fresh(permissions)), "create", key)

\* The first of the keys whose create check raises, 0 if none does.
FirstRefused(keys) ==
    LET refused == {i \in 1..Len(keys) : CreateCheck(keys[i]).result.kind # "ok"}
    IN  IF refused = {} THEN 0
        ELSE CHOOSE i \in refused : \A j \in refused : i <= j

RECURSIVE CreateHooks(_, _)

\* The policy consultations of the create checks of the first n keys.
CreateHooks(keys, n) ==
    IF n = 0 THEN <<>>
    ELSE CreateHooks(keys, n - 1) \o CreateCheck(keys[n]).hook

\* C22: a construction with check_create evaluates authorize("create", key)
\* with authorization enabled for the constructor's field names, whatever
\* the protected argument is, before any field is stored: when a check
\* raises the construction raises the same and no argument is stored; when
\* none raises every check was made and the arguments are stored.
C22_CreateChecked ==
    [][\A keys \in KwargsArgs, p \in ProtectedArgs :
         (last'.op = "construct" /\ Construct(keys, p, TRUE))
         => LET n == FirstRefused(keys) IN
            IF n # 0
            THEN /\ last'.result = CreateCheck(keys[n]).result
                 /\ last'.key = keys[n]
                 /\ last'.hook = CreateHooks(keys, n)
                 /\ last'.wrote = {}
                 /\ DOMAIN inst_dict' = {}
            ELSE /\ last'.result = Ok
                 /\ last'.hook = CreateHooks(keys, Len(keys))
                 /\ last'.wrote = Range(keys)]_vars

\* A construction with id among its arguments failed at the create check of
\* id, after the policy was consulted, and nothing is stored.
C22_Witness ==
    /\ last.op = "construct"
    /\ last.result.kind = "Forbidden"
    /\ last.key = "id"
    /\ last.hook = <<"create">>
    /\ DOMAIN inst_dict = {}

\* C27: when a construction completes, allowed[a] and denied[a] are empty
\* for every action of the record type's table and authorization is enabled
\* as the protected argument says (enabled when it is omitted); without
\* check_create the constructor stores every argument and the policy is not
\* consulted.
C27_InitialContext ==
    [][\A keys \in KwargsArgs, p \in ProtectedArgs, c \in BOOLEAN :
         (/\ last'.op = "construct"
          /\ Construct(keys, p, c)
          /\ last'.result.kind = "ok")
         => /\ \A a \in table_actions(permissions) :
                  _allowed_fields'[a] = {} /\ _forbidden_fields'[a] = {}
            /\ _protected' = (p \in {"omitted", "True"})
            /\ ~c => /\ last'.hook = <<>>
                      /\ DOMAIN inst_dict' = Range(keys)
                      /\ \A k \in Range(keys) : inst_dict'[k] = InitValue]_vars

\* An instance was constructed with id and nick and protected=False: both
\* are stored, the policy was not consulted, authorization is disabled.
C27_Witness ==
    /\ last.op = "construct"
    /\ last.result.kind = "ok"
    /\ last.hook = <<>>
    /\ DOMAIN inst_dict = {"id", "nick"}
    /\ ~_protected
    /\ \A a \in table_actions(permissions) :
          _allowed_fields[a] = {} /\ _forbidden_fields[a] = {}

----------------------------------------------------------------------------
(***************************************************************************)
(* Properties of the permission table of an instance (SpecTable) *)
(***************************************************************************)

\* C25: no operation on a record instance, the assignment through its
\* permissions accessor included, changes the table its authorization
\* decisions consult.
C25_TableReadOnly ==
    [][permissions' = permissions]_vars

(* Properties of the rule compiler (SpecCompiler) *)

\* The step is the call load_permissions(**kw) with a shorthand kw.
Loaded(kw) == compiled'.done /\ kw \in Shorthands /\ LoadPermissions(kw)

\* The public role's fields for an action in a compiled table.
PublicMembers(h, perm, action) == Range(public_fields(perm, h, action))

\* C14: pair rules. For every role whose shorthand contains a pair
\* (actions, fields) and for each action of the pair, the compiled field-set
\* of the role for that action has exactly the members of fields (as passed)
\* and of the public role's fields for that action, also when the pair names
\* several actions with different public field lists.
C14_PairRules ==
    [][LET kw == compiled'.kwargs IN
       Loaded(kw)
         => \A i \in 1..Len(kw.roles) :
              kw.roles[i].permission.type = "list"
              => \A rule \in {r \in Range(kw.roles[i].permission.v) :
                                 r.type = "tuple"} :
                   \A a \in rule_actions(rule) :
                      Range(Deref(heap', compiled'.table[kw.roles[i].role][a]))
                      = Range(heap[rule.fields.id])
                        \cup PublicMembers(heap', compiled'.table, a)]_vars

\* The actions the roles of a shorthand mention: bare action strings, the
\* action side of pair rules, the keys of a role given as a dict.
MentionedAnywhere(kw) ==
    UNION {LET p == kw.roles[i].permission IN
           IF p.type = "dict" THEN DOMAIN p.v
           ELSE IF p.type = "list"
           THEN UNION {{p.v[j].actions.v[k] : k \in 1..Len(p.v[j].actions.v)} :
                          j \in 1..Len(p.v)}
           ELSE {} :
           i \in 1..Len(kw.roles)}

\* The roles of a shorthand given as "*".
StarRoles(kw) ==
    {kw.roles[i].role : i \in {j \in 1..Len(kw.roles) :
                                 kw.roles[j].permission = Star}}

\* C15 as claimed: a role given as "*" compiles to the four built-in actions
\* and every action mentioned in any role's rules, each mapped to ["*"],
\* whether or not an explicit actions list is passed.
C15_WildcardRole_Original ==
    [][LET kw == compiled'.kwargs IN
       Loaded(kw)
         => \A role \in StarRoles(kw) :
              compiled'.value[role] =
                 [a \in Range(DEFAULT_ACTIONS) \cup MentionedAnywhere(kw)
                    |-> <<"*">>]]_vars

\* C15, amended: that holds when no explicit actions list is passed; when
\* one is passed, the role compiles to exactly the actions of that list,
\* each mapped to ["*"].
C15_WildcardRole ==
    [][LET kw == compiled'.kwargs IN
       Loaded(kw)
         => \A role \in StarRoles(kw) :
              compiled'.value[role] =
                 [a \in IF kw.actions.type = "list"
                        THEN {kw.actions.v[k] : k \in 1..Len(kw.actions.v)}
                        ELSE Range(DEFAULT_ACTIONS)
                             \cup MentionedAnywhere(kw)
                    |-> <<"*">>]]_vars

\* The docstring's roles were compiled without an actions list: admin has
\* the built-in actions and custom_action, which only self mentions.
C15_Witness ==
    /\ compiled.done
    /\ compiled.kwargs.actions = None
    /\ "admin" \in StarRoles(compiled.kwargs)
    /\ compiled.value["admin"] = [a \in Actions |-> <<"*">>]

\* C16: after load_permissions with built-in actions passed as top-level
\* keys with a field list, the public role of the table has every one of
\* those actions, mapped to the list given for it.
C16_PublicSugar ==
    [][LET kw == compiled'.kwargs IN
       Loaded(kw)
         => \A a \in DOMAIN kw.sugar :
              /\ "public" \in DOMAIN compiled'.value
              /\ a \in DOMAIN compiled'.value["public"]
              /\ compiled'.value["public"][a]
                   = heap[kw.sugar[a].fields.id]]_vars

\* C17: load_permissions with a compiled table as its keyword arguments,
\* every role an action -> fields dict, returns a table equal to it:
\* compile(compile(x)) = compile(x).
C17_RoundTrip ==
    [][Recompile => compiled'.value = compiled.value]_vars

\* The table compiled from the docstring's roles was compiled again: three
\* roles, each passed as a dict, admin with "*" for every action.
C17_Witness ==
    /\ compiled.done
    /\ Len(compiled.kwargs.roles) = 3
    /\ \A i \in 1..3 : compiled.kwargs.roles[i].permission.type = "dict"
    /\ compiled.value["admin"] = [a \in Actions |-> <<"*">>]
    /\ \E a \in DOMAIN compiled.value["self"] :
          Len(compiled.value["self"][a]) > 1

\* C18: load_permissions leaves every field list of the shorthand as it
\* was; compiling the shorthand compiled last once more gives the same
\* members for every (role, action); and the table compiled before keeps
\* the value it had.
C18_Pure ==
    [][LET kw == compiled'.kwargs IN
       Loaded(kw)
         => /\ \A n \in DOMAIN heap : heap'[n] = heap[n]
            /\ (compiled.done /\ compiled.kwargs = kw)
                  => Members(heap', compiled'.table)
                       = Members(heap, compiled.table)
            /\ compiled.done
                  => Value(heap', compiled.table) = compiled.value]_vars

----------------------------------------------------------------------------
(* Properties of two records under interleaving (SpecThreads) *)

\* C21: whatever calls on a record are interleaved with the calls on
\* another record, its actor, every authorization decision on the actor is
\* the one the actor gives alone (constructed protected and never exposed
\* by a call of its own): an authorize call on the record never makes an
\* access on the actor succeed that is denied on the actor alone.
C21_InstanceIsolation ==
    [][\A a \in OsoActions, k \in ActorKeys :
         (last'.op = "actor_authorize" /\ ActorAuthorize(a, k))
         => last'.result =
              oso_authorize(protect(Actor), UserMock, oso, a, k,
                            RecursionLimit).result]_vars

====
